---- MODULE Spec2Model ----
(***************************************************************************)
(* QCOW2 sequential reader (qcow2.go): header and L1 parsing done by       *)
(* NewReader, and the cluster-by-cluster Read state machine with on-demand *)
(* L2 table loading.                                                       *)
(*                                                                         *)
(* Representation choices:                                                 *)
(*  - a 64-bit big-endian field of the file is the set of its one-bit      *)
(*    positions (0 = least significant), so the masks and flag tests of    *)
(*    the code are set operations;                                         *)
(*  - a Go slice is a sequence of runs [e |-> first element, n |-> count]: *)
(*    a run of a byte that has a position ("at") stands for n consecutive  *)
(*    bytes of the same origin, any other run for n equal elements. The    *)
(*    runs are kept maximal, so equal slices are equal values;             *)
(*  - a byte of cluster data is named by its origin: a zero byte, the byte *)
(*    at a position of the image file, or the byte at a position of the    *)
(*    inflated stream that starts at a file offset.                        *)
(***************************************************************************)
EXTENDS Integers, Sequences, FiniteSets, TLC

VARIABLES
    image,     \* the io.ReadSeeker handed to NewReader (an index into Images)
    phase,     \* "new" | "open" | "failed" | "panic"
    r,         \* the qcow2Reader (NoReader until NewReader has produced one)
    ret,       \* the last call and what it returned
    trace,     \* what the last call did: source operations, table resolutions, materializations
    resolved,  \* the last successful L2 table resolution: L1 index and entries written
    total,     \* bytes returned by all Read calls so far
    eofs,      \* Read calls that returned io.EOF so far
    faults     \* source operations that have failed so far

vars == <<image, phase, r, ret, trace, resolved, total, eofs, faults>>

-----------------------------------------------------------------------------
(* Bounds of the model *)

\* clusters of the two-table images that lie beyond the first L2 table
TailClusters == 2
\* length of a short caller buffer
SmallLen == 200
\* source operations that may fail in one behaviour
MaxFaults == 1
\* bytes a failing read has transferred before it fails
ShortGot == 100
\* clusters past the end of the image up to which Read calls are followed
MaxPast == 3

-----------------------------------------------------------------------------
(* Integer helpers with Go's semantics *)

min(a, b) == IF a < b THEN a ELSE b

\* Go's / on int truncates toward zero
GoDiv(a, b) == IF a >= 0 THEN a \div b ELSE -((-a) \div b)

-----------------------------------------------------------------------------
(* 64-bit words *)

WordBits == 0..63

\* the word holding the non-negative integer n (n < 2^31)
Bits(n) == {b \in 0..30 : (n \div (2^b)) % 2 = 1}

RECURSIVE Val(_)
\* the unsigned value of a word
Val(w) == IF w = {} THEN 0
          ELSE LET b == CHOOSE x \in w : TRUE IN 2^b + Val(w \ {b})

\* the word 2^64 - k, for 1 <= k <= 2^31
Neg(k) == WordBits \ Bits(k - 1)

\* int(x) and int64(x) of a uint64 x: two's complement reinterpretation
ToInt64(w) == IF 63 \in w THEN -(1 + Val(WordBits \ w)) ELSE Val(w)

\* the upper 32 bits of a word, as binary.BigEndian.Uint32 of its first 4 bytes
Upper32(w) == Val({b - 32 : b \in {x \in w : x >= 32}})

-----------------------------------------------------------------------------
(* Slices as sequences of maximal runs *)

Shift(e, j) == IF "at" \in DOMAIN e THEN [e EXCEPT !.at = @ + j] ELSE e

\* the run of n elements that starts at index from with element e
Run(from, n, e) == [from |-> from, n |-> n, e |-> e]

\* a slice of n elements: e and its successors, or n times e
Span(e, n) == IF n > 0 THEN << Run(0, n, e) >> ELSE << >>

\* len(a)
ArrLen(a) == IF a = << >> THEN 0 ELSE a[Len(a)].from + a[Len(a)].n

\* a[i], 0-based
At(a, i) ==
    LET k == CHOOSE k \in 1..Len(a) : a[k].from <= i /\ i < a[k].from + a[k].n
    IN  Shift(a[k].e, i - a[k].from)

\* a[from : from+n]
Slice(a, from, n) ==
    LET ks == {k \in 1..Len(a) : a[k].from < from + n /\ a[k].from + a[k].n > from}
        lo == CHOOSE k \in ks : \A j \in ks : k <= j
        cut(k) == LET b == IF a[k].from > from THEN a[k].from ELSE from
                      e == IF a[k].from + a[k].n < from + n
                           THEN a[k].from + a[k].n ELSE from + n
                  IN  Run(b - from, e - b, Shift(a[k].e, b - a[k].from))
    IN  IF n <= 0 \/ ks = {} THEN << >>
        ELSE [j \in 1..Cardinality(ks) |-> cut(lo + j - 1)]

\* a[k:]
Drop(a, k) == Slice(a, k, ArrLen(a) - k)

\* a followed by b
Cat(a, b) ==
    LET bb == [j \in 1..Len(b) |-> [b[j] EXCEPT !.from = @ + ArrLen(a)]]
        x == a[Len(a)]
        y == bb[1]
    IN  IF a = << >> THEN b
        ELSE IF b = << >> THEN a
        ELSE IF Shift(x.e, x.n) = y.e
        THEN SubSeq(a, 1, Len(a) - 1) \o << Run(x.from, x.n + y.n, x.e) >> \o Tail(bb)
        ELSE a \o bb

\* copy(dst, src) for len(src) <= len(dst): src over the front of dst
CopyInto(dst, src) == Cat(src, Drop(dst, ArrLen(src)))

-----------------------------------------------------------------------------
(* Bytes of cluster data, named by origin *)

ZeroByte == [src |-> "zero"]
FileByte(pos) == [src |-> "file", at |-> pos]
FlateByte(off, i) == [src |-> "flate", id |-> off, at |-> i]

\* n bytes of the file from position pos
FileBytes(pos, n) == Span(FileByte(pos), n)
\* the first n bytes of the inflated stream that starts at file offset off
FlateBytes(off, n) == Span(FlateByte(off, 0), n)

-----------------------------------------------------------------------------
(* Errors returned by the package; Nil is Go's nil error *)

Nil == "nil"
EOF == "EOF"
ErrUnexpectedEOF == "unexpected EOF"
ErrSeek == "seek failed"
ErrMagic == "not a qcow2 file, wrong magic"
ErrVersion == "version is not supported"
ErrBackingFile == "backing file is not supported"
ErrClusterSize == "cluster size is not supported"
ErrEncryption == "encryption is not supported"
ErrDirty == "dirty bit set is not supported"
ErrCorrupt == "corrupt bit set is not supported"
ErrExternalData == "external data file is not supported"
ErrExtendedL2 == "extended L2 entries are not supported"
ErrUnknownFeatures == "unknown incompatible features are not supported"
ErrHeaderAlign == "header length not aligned to 8 bytes is not supported"
ErrHeaderShort == "header length must be at least 104 bytes"
ErrHeaderLong == "header length > 1000 bytes is likely corrupted"
ErrCompressionHeader == "too short header for non-default compression"
ErrCompressionType == "compression type is not supported"
ErrL1 == "failed to read L1 table"
PanicIndex == "panic: index out of range"
PanicMakeLen == "panic: makeslice: len out of range"

-----------------------------------------------------------------------------
(* Constants of the format, as the code writes them *)

Magic == << 81, 70, 73, 251 >>          \* 'Q', 'F', 'I', 0xfb
l1EntryOffsetMask == 9..55
incFeatDirtyBit == 0
incFeatCorruptBit == 1
incFeatExternalDataFileBit == 2
incFeatCompressionTypeBit == 3
incFeatExtendedL2EntriesBit == 4
incFeatUnknownBits == WordBits \ (0..4)
compressionTypeZlib == 0
l2EntryCompressedBit == 62
l2EntryNoncompressedAllZeroesBit == 0
l2EntryNoncompressedOffsetMask == 9..55
MinClusterBits == 9
MaxClusterBits == 21
HeaderSize == 72
V3HeaderSize == 32
MinHeaderLength == 104
MaxHeaderLength == 1000
CompressionHeaderLength == 108
EntrySize == 8

-----------------------------------------------------------------------------
(* Operations on the byte source *)

NoFault == [op |-> 0, got |-> 0]

IsSourceOp(x) == x.op \in {"seek", "read", "inflate"}

\* the seeks and reads among the steps t
SourceOps(t) == SelectSeq(t, IsSourceOp)

\* the next source operation after the steps t is the one that flt makes fail
Fails(flt, t) == flt.op = Len(SourceOps(t)) + 1

\* image.Seek(at, io.SeekStart)
SeekOp(at) == [op |-> "seek", at |-> at, n |-> 0]
\* io.ReadFull(image, buf) with len(buf) = n > 0, the source being positioned at at
ReadOp(at, n) == [op |-> "read", at |-> at, n |-> n]
\* io.ReadFull(flate.NewReader(image), buf), the source being positioned at at
InflateOp(at, n) == [op |-> "inflate", at |-> at, n |-> n]

-----------------------------------------------------------------------------
(* parseL1Table *)

parseL1Table(f, offset, size, flt, t) ==
    LET t1 == Append(t, SeekOp(offset))
        t2 == Append(t1, ReadOp(offset, size * EntrySize))
    IN  IF Fails(flt, t) THEN [err |-> ErrSeek, out |-> << >>, trace |-> t1]
        ELSE IF size = 0 THEN [err |-> Nil, out |-> << >>, trace |-> t1]
        ELSE IF Fails(flt, t1) THEN [err |-> ErrUnexpectedEOF, out |-> << >>, trace |-> t2]
        ELSE [err |-> Nil,
              out |-> [i \in 1..size |-> ToInt64(f.l1[i] \cap l1EntryOffsetMask)],
              trace |-> t2]

-----------------------------------------------------------------------------
(* parseHeaderAndL1 *)

NoConfig == [clusterSize |-> 0, nClusters |-> 0, l1Table |-> << >>, l2TableSize |-> 0,
             l2CompressedEntryHostClusterOffsetMask |-> {}]

\* faulty variant of incompatibleFeaturesError: bits outside the five known ones pass
incompatibleFeaturesErrorKnownOnly(incompatibleFeatures) ==
    IF incFeatDirtyBit \in incompatibleFeatures THEN ErrDirty
    ELSE IF incFeatCorruptBit \in incompatibleFeatures THEN ErrCorrupt
    ELSE IF incFeatExternalDataFileBit \in incompatibleFeatures THEN ErrExternalData
    ELSE IF incFeatExtendedL2EntriesBit \in incompatibleFeatures THEN ErrExtendedL2
    ELSE Nil

\* the checks of the incompatible-feature bits, in the code's order: the error
\* of the first one that fails, or Nil
incompatibleFeaturesError(incompatibleFeatures) ==
    IF incFeatDirtyBit \in incompatibleFeatures THEN ErrDirty
    ELSE IF incFeatCorruptBit \in incompatibleFeatures THEN ErrCorrupt
    ELSE IF incFeatExternalDataFileBit \in incompatibleFeatures THEN ErrExternalData
    ELSE IF incFeatExtendedL2EntriesBit \in incompatibleFeatures THEN ErrExtendedL2
    ELSE IF incompatibleFeatures \cap incFeatUnknownBits # {} THEN ErrUnknownFeatures
    ELSE Nil

\* faulty variant of headerLengthError: no upper limit
headerLengthErrorNoCeiling(headerLength) ==
    IF headerLength % 8 # 0 THEN ErrHeaderAlign
    ELSE IF headerLength < MinHeaderLength THEN ErrHeaderShort
    ELSE Nil

\* the checks of the header length: the error of the first one that fails, or Nil
headerLengthError(headerLength) ==
    IF headerLength % 8 # 0 THEN ErrHeaderAlign
    ELSE IF headerLength < MinHeaderLength THEN ErrHeaderShort
    ELSE IF headerLength > MaxHeaderLength THEN ErrHeaderLong
    ELSE Nil

\* the "if hasNonDefaultCompression" block: its error, or Nil
compressionError(incompatibleFeatures, headerLength) ==
    LET compressionType == Upper32(incompatibleFeatures)   \* Uint32(v3Header[0:4])
    IN  IF headerLength < CompressionHeaderLength THEN ErrCompressionHeader
        ELSE IF compressionType # compressionTypeZlib THEN ErrCompressionType
        ELSE Nil

\* the "if ver == 3" block: the error it returns, or Nil, and the steps taken
parseV3Header(f, flt, t) ==
    LET t1 == Append(t, ReadOp(HeaderSize, V3HeaderSize))
        incompatibleFeatures == f.incompatibleFeatures
        hasNonDefaultCompression == incFeatCompressionTypeBit \in incompatibleFeatures
        headerLength == f.headerLength
        t2 == IF headerLength - MinHeaderLength > 0
              THEN Append(t1, ReadOp(MinHeaderLength, headerLength - MinHeaderLength))
              ELSE t1
    IN  IF Fails(flt, t) THEN [err |-> ErrUnexpectedEOF, trace |-> t1]
        ELSE IF incompatibleFeaturesError(incompatibleFeatures) # Nil
             THEN [err |-> incompatibleFeaturesError(incompatibleFeatures), trace |-> t1]
        ELSE IF headerLengthError(headerLength) # Nil
             THEN [err |-> headerLengthError(headerLength), trace |-> t1]
        ELSE IF t2 # t1 /\ Fails(flt, t1) THEN [err |-> ErrUnexpectedEOF, trace |-> t2]
        ELSE IF hasNonDefaultCompression
             THEN [err |-> compressionError(incompatibleFeatures, headerLength), trace |-> t2]
        ELSE [err |-> Nil, trace |-> t2]

parseHeaderAndL1(f, flt) ==
    LET t1 == << ReadOp(0, HeaderSize) >>
        ver == f.ver
        clusterBits == f.clusterBits
        clusterSize == 2^clusterBits
        virtualDiskSize == f.virtualDiskSize
        l1TableSize == f.l1TableSize
        l1TableOffset == ToInt64(f.l1TableOffset)
        v3 == IF ver = 3 THEN parseV3Header(f, flt, t1) ELSE [err |-> Nil, trace |-> t1]
        l1 == parseL1Table(f, l1TableOffset, l1TableSize, flt, v3.trace)
        l2TableSize == clusterSize \div EntrySize
        bad(e, t) == [err |-> e, config |-> NoConfig, trace |-> t]
    IN  IF Fails(flt, << >>) THEN bad(ErrUnexpectedEOF, t1)
        ELSE IF f.magic # Magic THEN bad(ErrMagic, t1)
        ELSE IF ver # 2 /\ ver # 3 THEN bad(ErrVersion, t1)
        ELSE IF f.backingFileNameOffset # {} THEN bad(ErrBackingFile, t1)
        ELSE IF clusterBits < MinClusterBits \/ clusterBits > MaxClusterBits
             THEN bad(ErrClusterSize, t1)
        ELSE IF f.encryptionMethod # 0 THEN bad(ErrEncryption, t1)
        ELSE IF v3.err # Nil THEN bad(v3.err, v3.trace)
        ELSE IF l1.err # Nil THEN bad(ErrL1, l1.trace)
        ELSE [err |-> Nil,
              config |-> [clusterSize |-> clusterSize,
                          nClusters |-> GoDiv(ToInt64(virtualDiskSize), clusterSize),
                          l2TableSize |-> l2TableSize,
                          l2CompressedEntryHostClusterOffsetMask |-> 0..(70 - clusterBits - 1),
                          l1Table |-> l1.out],
              trace |-> l1.trace]

-----------------------------------------------------------------------------
(* The image files                                                         *)
(*                                                                         *)
(* An image is its header fields and its L1 table; the regions behind the  *)
(* header are the same in every image: L2 table A, L2 table B, and cluster *)
(* data everywhere else.                                                   *)

TableA == 4 * 512
TableB == 5 * 512
DataAt == 16 * 512
Poison == 120 * 512

\* entry k of L2 table A: compressed, all-zero and raw clusters in turn; the raw
\* clusters are shared (eight host clusters serve them all) and carry flag bit 63
EntryA(k) ==
    CASE k % 3 = 0 -> {l2EntryCompressedBit} \cup Bits(DataAt + 37 * k)
      [] k % 3 = 1 -> {l2EntryNoncompressedAllZeroesBit} \cup Bits(DataAt + 512 * k)
      [] OTHER     -> {63} \cup Bits(DataAt + 512 * (k % 8))

\* entry k of L2 table B: TailClusters entries in use, the rest never written
\* by the image's creator
EntryB(k) ==
    IF k >= TailClusters THEN {63} \cup Bits(Poison)
    ELSE IF k % 2 = 0 THEN {63} \cup Bits(DataAt + 512 * (100 + k))
    ELSE {l2EntryCompressedBit} \cup Bits(2 * DataAt + 11 * k)

\* the n 8-byte big-endian words of the file that start at offset off
FileWords(off, n) ==
    [i \in 1..n |-> CASE off = TableA -> EntryA(i - 1)
                      [] off = TableB -> EntryB(i - 1)]

PtrA == {63} \cup Bits(TableA)
PtrB == {63} \cup Bits(TableB)

Base == [magic |-> Magic, ver |-> 2, backingFileNameOffset |-> {}, clusterBits |-> 9,
         virtualDiskSize |-> {}, encryptionMethod |-> 0, l1TableSize |-> 0,
         l1TableOffset |-> Bits(3 * 512), incompatibleFeatures |-> {},
         headerLength |-> 104, compressionType |-> 0, l1 |-> << >>]

WithBody(h, vds, l1) ==
    [h EXCEPT !.virtualDiskSize = vds, !.l1 = l1, !.l1TableSize = Len(l1)]

\* images with 512-byte clusters, 64 entries to an L2 table
ReadImages ==
    { WithBody(Base, Bits((64 + TailClusters) * 512 + 100), << PtrA, PtrB >>),
      WithBody(Base, Bits((64 + TailClusters) * 512), << {}, {} >>),
      WithBody(Base, Bits((64 + TailClusters) * 512), << {}, PtrB >>),
      WithBody(Base, Bits(TailClusters * 512), << PtrB >>),
      WithBody(Base, Bits(64 * 512), << PtrA >>),
      WithBody(Base, Bits(63 * 512), << PtrA, {} >>),
      WithBody(Base, Bits((64 + TailClusters) * 512), << PtrA >>),
      WithBody(Base, Bits(100), << PtrA >>),
      WithBody(Base, Neg(512), << PtrA >>) }

\* virtual disk sizes around a multiple of the cluster size, as unsigned 64-bit
\* values near 0 and near 2^64
SizesAround(cb) ==
    UNION { { Bits(q * (2^cb) + d), Neg(q * (2^cb) + d + 1) } :
              q \in 0..2, d \in {0, 1, 2^cb - 1} }

SizeImages ==
    UNION { { WithBody([Base EXCEPT !.clusterBits = cb], vds, << {} >>) :
                vds \in SizesAround(cb) } :
            cb \in {MinClusterBits, MaxClusterBits} }

\* headers that differ from an accepted one in the fields checked for both versions
FieldImages ==
    { WithBody([Base EXCEPT !.magic = m, !.ver = v, !.backingFileNameOffset = b,
                            !.clusterBits = cb, !.encryptionMethod = e,
                            !.incompatibleFeatures = fe],
               Bits(512), << PtrB >>) :
        m \in {Magic, << 81, 70, 73, 0 >>}, v \in 1..4, b \in {{}, Bits(512)},
        cb \in {8, 9, 21, 22}, e \in {0, 1}, fe \in {{}, {incFeatDirtyBit}} }

\* version 3 headers: incompatible features, header length, compression type
V3Images ==
    { WithBody([Base EXCEPT !.ver = 3, !.incompatibleFeatures = fe, !.headerLength = hl,
                            !.compressionType = ct],
               Bits(512), << PtrB >>) :
        fe \in SUBSET {0, 1, 2, 3, 4, 5, 32},
        hl \in {96, 100, 104, 108, 112, 1000, 1004, 1008},
        ct \in {0, 1} }

Images == ReadImages \cup SizeImages \cup FieldImages \cup V3Images

-----------------------------------------------------------------------------
(* parseL2Table *)

IsPanic(err) == err \in {PanicIndex, PanicMakeLen}

\* l2Entry{...}
l2Entry(offset, compressed, allZeroes) ==
    [offset |-> offset, compressed |-> compressed, allZeroes |-> allZeroes]

\* the body of the decoding loop: one 8-byte entry to an l2Entry
parseL2Entry(rd, entry) ==
    IF l2EntryCompressedBit \in entry
    THEN l2Entry(ToInt64(entry \cap rd.l2CompressedEntryHostClusterOffsetMask), TRUE, FALSE)
    ELSE IF l2EntryNoncompressedAllZeroesBit \in entry
    THEN l2Entry(0, FALSE, TRUE)
    ELSE l2Entry(ToInt64(entry \cap l2EntryNoncompressedOffsetMask), FALSE, FALSE)

RECURSIVE parseL2Entries(_, _, _, _)
\* entries lo..hi of buf, decoded
parseL2Entries(rd, buf, lo, hi) ==
    IF lo > hi THEN << >>
    ELSE IF lo = hi THEN Span(parseL2Entry(rd, buf[lo]), 1)
    ELSE LET mid == (lo + hi) \div 2
         IN  Cat(parseL2Entries(rd, buf, lo, mid), parseL2Entries(rd, buf, mid + 1, hi))

\* last L2 table may be shorter than l2TableSize
l2EntriesToRead(rd) == min(rd.l2TableSize, rd.nClusters - rd.currentCluster)

ResolveStep(idx, n) == [op |-> "parseL2Table", at |-> idx, n |-> n]

parseL2Table(rd, l2TableIdx, flt, t) ==
    IF l2TableIdx >= Len(rd.l1Table)
    THEN [r |-> rd, err |-> PanicIndex, trace |-> t]
    ELSE IF rd.l1Table[l2TableIdx + 1] = 0
    THEN [r |-> [rd EXCEPT !.currentL2Table = Span(l2Entry(0, FALSE, TRUE), rd.l2TableSize)],
          err |-> Nil,
          trace |-> Append(t, ResolveStep(l2TableIdx, rd.l2TableSize))]
    ELSE
    LET at == rd.l1Table[l2TableIdx + 1]
        t1 == Append(t, SeekOp(at))
        l2Entries == l2EntriesToRead(rd)
        t2 == IF l2Entries > 0 THEN Append(t1, ReadOp(at, EntrySize * l2Entries)) ELSE t1
        buf == FileWords(at, l2Entries)
    IN  IF Fails(flt, t) THEN [r |-> rd, err |-> ErrSeek, trace |-> t1]
        ELSE IF l2Entries < 0 THEN [r |-> rd, err |-> PanicMakeLen, trace |-> t1]
        ELSE IF t2 # t1 /\ Fails(flt, t1) THEN [r |-> rd, err |-> ErrUnexpectedEOF, trace |-> t2]
        ELSE [r |-> [rd EXCEPT !.currentL2Table =
                            CopyInto(@, parseL2Entries(rd, buf, 1, l2Entries))],
              err |-> Nil,
              trace |-> Append(t2, ResolveStep(l2TableIdx, l2Entries))]

-----------------------------------------------------------------------------
(* fillNextCluster *)

FillStep(cluster, idx) == [op |-> "fill", at |-> cluster, n |-> idx]

\* the position in currentL2Table of the entry for the current cluster
l2Index(rd) == rd.currentCluster % rd.l2TableSize

\* faulty variant of needsL2Table: the table is loaded for the first cluster only
needsL2TableOnce(rd) == rd.currentCluster = 0

\* the "reader has moved from one L2 table to another" test
needsL2Table(rd) == rd.currentCluster % rd.l2TableSize = 0

\* the switch on the entry: the cluster's bytes into currentData
readCluster(rd, entry, flt, t) ==
    LET t1 == Append(t, SeekOp(entry.offset))
        got == min(flt.got, rd.clusterSize - 1)
    IN  IF entry.allZeroes
        THEN [r |-> [rd EXCEPT !.currentData = Span(ZeroByte, rd.clusterSize)],
              err |-> Nil, trace |-> t]
        ELSE IF Fails(flt, t) THEN [r |-> rd, err |-> ErrSeek, trace |-> t1]
        ELSE IF entry.compressed
        THEN LET t2 == Append(t1, InflateOp(entry.offset, rd.clusterSize))
             IN  IF Fails(flt, t1)
                 THEN [r |-> [rd EXCEPT !.currentData =
                                    CopyInto(@, FlateBytes(entry.offset, got))],
                       err |-> ErrUnexpectedEOF, trace |-> t2]
                 ELSE [r |-> [rd EXCEPT !.currentData =
                                    FlateBytes(entry.offset, rd.clusterSize)],
                       err |-> Nil, trace |-> t2]
        ELSE LET t2 == Append(t1, ReadOp(entry.offset, rd.clusterSize))
             IN  IF Fails(flt, t1)
                 THEN [r |-> [rd EXCEPT !.currentData =
                                    CopyInto(@, FileBytes(entry.offset, got))],
                       err |-> ErrUnexpectedEOF, trace |-> t2]
                 ELSE [r |-> [rd EXCEPT !.currentData =
                                    FileBytes(entry.offset, rd.clusterSize)],
                       err |-> Nil, trace |-> t2]

\* faulty variant of nextCluster: the clusters left are counted down
nextClusterCountingDown(rd) == [rd EXCEPT !.currentCluster = @ + 1, !.nClusters = @ - 1]

\* r.currentCluster++
nextCluster(rd) == [rd EXCEPT !.currentCluster = @ + 1]

\* faulty variant of atEnd: the end is seen one cluster early
atEndEarly(rd) == rd.currentCluster = rd.nClusters - 1

\* the end-of-image test made after the increment
atEnd(rd) == rd.currentCluster = rd.nClusters

fillNextCluster(rd, flt, t) ==
    LET r1 == nextCluster(rd)
        l2 == IF needsL2Table(r1)
              THEN parseL2Table(r1, r1.currentCluster \div r1.l2TableSize, flt, t)
              ELSE [r |-> r1, err |-> Nil, trace |-> t]
        entry == At(l2.r.currentL2Table, l2Index(r1))
        data == readCluster(l2.r, entry, flt, Append(l2.trace, FillStep(r1.currentCluster, l2Index(r1))))
    IN  IF atEnd(r1) THEN [r |-> r1, err |-> EOF, trace |-> t]
        ELSE IF l2.err # Nil THEN l2
        ELSE IF data.err # Nil THEN data
        ELSE [r |-> [data.r EXCEPT !.currentOffset = 0], err |-> Nil, trace |-> data.trace]

-----------------------------------------------------------------------------
(* The state machine: NewReader once, then Read calls *)

NoReader == [clusterSize |-> 0, nClusters |-> 0, l1Table |-> << >>, l2TableSize |-> 0,
             l2CompressedEntryHostClusterOffsetMask |-> {},
             currentCluster |-> 0, currentL2Table |-> << >>,
             currentData |-> << >>, currentOffset |-> 0]

NoCall == [op |-> "none", len |-> 0, n |-> 0, err |-> Nil, p |-> << >>]

NoResolution == [op |-> "none", at |-> -1, n |-> 0]

\* what a failing source operation may be: the op-th one of the call, a read
\* having transferred got bytes
Faults == {NoFault} \cup { [op |-> j, got |-> g] : j \in 1..5, g \in {0, ShortGot} }

\* the fault flt happened in a call that took the steps t
Fired(flt, t) ==
    /\ flt.op = Len(SourceOps(t))
    /\ flt.op > 0
    /\ t[Len(t)].op = "seek" => flt.got = 0

\* a call with fault flt is followed up when the fault happens in it, within MaxFaults
FaultOK(flt, t) == flt = NoFault \/ (faults < MaxFaults /\ Fired(flt, t))

\* the buffer lengths a caller passes, for clusters of cs bytes
BufLens(cs) ==
    LET small == SmallLen * (cs \div 512)
    IN  {0, small, cs, cs + small}

\* the last parseL2Table step among the steps t, or the one before the call
LastResolution(t, before) ==
    LET at == {i \in 1..Len(t) : t[i].op = "parseL2Table"}
    IN  IF at = {} THEN before ELSE t[CHOOSE i \in at : \A j \in at : j <= i]

\* faulty variant of newReader: the reader starts at offset 0 of its empty buffer
newReaderAtStart(config) ==
    [clusterSize |-> config.clusterSize,
     nClusters |-> config.nClusters,
     l1Table |-> config.l1Table,
     l2TableSize |-> config.l2TableSize,
     l2CompressedEntryHostClusterOffsetMask |-> config.l2CompressedEntryHostClusterOffsetMask,
     currentData |-> Span(ZeroByte, config.clusterSize),
     currentL2Table |-> Span(l2Entry(0, FALSE, FALSE), config.l2TableSize),
     currentCluster |-> -1,
     currentOffset |-> 0]

\* the qcow2Reader literal of NewReader
newReader(config) ==
    [clusterSize |-> config.clusterSize,
     nClusters |-> config.nClusters,
     l1Table |-> config.l1Table,
     l2TableSize |-> config.l2TableSize,
     l2CompressedEntryHostClusterOffsetMask |-> config.l2CompressedEntryHostClusterOffsetMask,
     currentData |-> Span(ZeroByte, config.clusterSize),
     currentL2Table |-> Span(l2Entry(0, FALSE, FALSE), config.l2TableSize),
     currentCluster |-> -1,
     currentOffset |-> config.clusterSize]

\* faulty variant of readLen: the whole buffer is filled from the current offset on
readLenUnclamped(rd, len) == len

\* n := min(r.clusterSize-r.currentOffset, len(p))
readLen(rd, len) == min(rd.clusterSize - rd.currentOffset, len)

Init ==
    /\ image \in Images
    /\ phase = "new"
    /\ r = NoReader
    /\ ret = NoCall
    /\ trace = << >>
    /\ resolved = NoResolution
    /\ total = 0
    /\ eofs = 0
    /\ faults = 0

NewReader(flt) ==
    /\ phase = "new"
    /\ LET h == parseHeaderAndL1(image, flt)
       IN  /\ FaultOK(flt, h.trace)
           /\ phase' = IF h.err = Nil THEN "open" ELSE "failed"
           /\ r' = IF h.err = Nil THEN newReader(h.config) ELSE NoReader
           /\ ret' = [op |-> "NewReader", len |-> 0, n |-> 0, err |-> h.err, p |-> << >>]
           /\ trace' = h.trace
           /\ faults' = IF flt = NoFault THEN faults ELSE faults + 1
    /\ UNCHANGED <<image, resolved, total, eofs>>

Read(len, flt) ==
    /\ phase = "open"
    /\ r.currentCluster < (IF r.nClusters > 0 THEN r.nClusters ELSE 0) + MaxPast
    /\ LET fill == IF r.currentOffset >= r.clusterSize
                   THEN fillNextCluster(r, flt, << >>)
                   ELSE [r |-> r, err |-> Nil, trace |-> << >>]
           n == readLen(fill.r, len)
       IN  /\ FaultOK(flt, fill.trace)
           /\ trace' = fill.trace
           /\ resolved' = LastResolution(fill.trace, resolved)
           /\ faults' = IF flt = NoFault THEN faults ELSE faults + 1
           /\ IF fill.err # Nil
              THEN /\ r' = fill.r
                   /\ ret' = [op |-> "Read", len |-> len, n |-> 0, err |-> fill.err, p |-> << >>]
                   /\ phase' = IF IsPanic(fill.err) THEN "panic" ELSE "open"
                   /\ eofs' = IF fill.err = EOF THEN eofs + 1 ELSE eofs
                   /\ total' = total
              ELSE /\ r' = [fill.r EXCEPT !.currentOffset = @ + n]
                   /\ ret' = [op |-> "Read", len |-> len, n |-> n, err |-> Nil,
                              p |-> Slice(fill.r.currentData, fill.r.currentOffset, n)]
                   /\ phase' = "open"
                   /\ eofs' = eofs
                   /\ total' = total + n
    /\ UNCHANGED image

Next ==
    \/ \E flt \in Faults : NewReader(flt)
    \/ \E flt \in Faults : \E len \in BufLens(r.clusterSize) : Read(len, flt)

Spec == Init /\ [][Next]_vars

-----------------------------------------------------------------------------
(* The logical disk content, from the image's tables *)

\* the decoded L1 entry that covers cluster c
L1For(c) == r.l1Table[(c \div r.l2TableSize) + 1]

\* the L2 entry of cluster c as the file holds it, decoded
L2For(c) == parseL2Entry(r, FileWords(L1For(c), (c % r.l2TableSize) + 1)[(c % r.l2TableSize) + 1])

\* the bytes of the cluster an L2 entry describes
ClusterBytes(entry) ==
    IF entry.allZeroes THEN Span(ZeroByte, r.clusterSize)
    ELSE IF entry.compressed THEN FlateBytes(entry.offset, r.clusterSize)
    ELSE FileBytes(entry.offset, r.clusterSize)

\* the bytes of logical cluster c
LogicalCluster(c) ==
    IF L1For(c) = 0 THEN Span(ZeroByte, r.clusterSize) ELSE ClusterBytes(L2For(c))

\* the n bytes of the logical disk from byte position pos on, within one cluster
LogicalBytes(pos, n) == Slice(LogicalCluster(pos \div r.clusterSize), pos % r.clusterSize, n)

\* the L1 table has an entry for the cluster of byte position pos
Covered(pos) == (pos \div r.clusterSize) \div r.l2TableSize < Len(r.l1Table)

\* nClusters*clusterSize
LogicalSize == r.nClusters * r.clusterSize

\* the last call was a Read
AfterRead == ret.op = "Read"

\* the step is a Read call
ReadStep == phase = "open" /\ ret'.op = "Read"

-----------------------------------------------------------------------------
(* C1 - round trip: as long as no source operation has failed, every Read   *)
(* up to the first end-of-stream returns the bytes of the logical disk at   *)
(* the position the stream has reached (zero bytes for an absent L2 table   *)
(* or an all-zero entry, the file's bytes at the host offset for a raw      *)
(* entry, the inflated bytes for a compressed one), and end-of-stream comes *)
(* when nClusters*clusterSize bytes have been returned.                     *)
C1_RoundTrip ==
    (AfterRead /\ faults = 0 /\ phase = "open") =>
        /\ (eofs = 0 /\ ret.err = Nil) =>
              (Covered(total - ret.n) /\ ret.p = LogicalBytes(total - ret.n, ret.n))
        /\ (eofs = 1 /\ ret.err = EOF) => total = LogicalSize

\* the image with two L2 tables in the file has been read to its end
C1_Witness ==
    /\ AfterRead /\ faults = 0 /\ eofs = 1 /\ ret.err = EOF
    /\ r.nClusters = 64 + TailClusters
    /\ \A i \in 1..Len(r.l1Table) : r.l1Table[i] # 0
    /\ total = (64 + TailClusters) * 512

(* C2 - end-of-stream exactly at the end: while no source operation has     *)
(* failed, a Read returns end-of-stream only when at least                  *)
(* nClusters*clusterSize bytes have been returned, and the first Read       *)
(* issued once exactly that many bytes have been returned returns 0 bytes   *)
(* and end-of-stream.                                                       *)
C2_EofAtEnd ==
    [][ (ReadStep /\ faults' = 0) =>
            /\ ret'.err = EOF => (total >= LogicalSize /\ ret'.n = 0)
            /\ (total = LogicalSize /\ eofs = 0) => (ret'.err = EOF /\ ret'.n = 0)
      ]_vars

\* end-of-stream has been returned for an image with clusters and a remainder
\* of the virtual size that is cut off
C2_Witness ==
    /\ AfterRead /\ faults = 0 /\ eofs = 1 /\ ret.err = EOF /\ ret.n = 0
    /\ total = LogicalSize /\ total > 0
    /\ Val(image.virtualDiskSize) > total

(* C3 - end-of-stream is terminal: once a Read has returned end-of-stream,  *)
(* every later Read returns 0 bytes and end-of-stream, resolves no L2       *)
(* table, materializes no cluster, issues no seek or read, and leaves the   *)
(* cluster index at nClusters.                                              *)
C3_EofTerminal ==
    (AfterRead /\ eofs >= 1) =>
        /\ ret.n = 0 /\ ret.err = EOF
        /\ trace = << >>
        /\ r.currentCluster = r.nClusters

(* C4 - no Read spans two clusters: a successful Read with a buffer of at   *)
(* least one byte makes at most one cluster transition, returns exactly     *)
(* min(clusterSize - offset, len) bytes, offset being the offset after the  *)
(* transition, all of them the bytes at that offset of the one cluster the  *)
(* current L2 entry describes, and advances the offset by that number.      *)
C4_OneCluster ==
    [][ (ReadStep /\ ret'.err = Nil /\ ret'.len >= 1) =>
            LET offset == IF r.currentOffset >= r.clusterSize THEN 0 ELSE r.currentOffset
                entry == At(r'.currentL2Table, r'.currentCluster % r'.l2TableSize)
                cluster == ClusterBytes(entry)
            IN  /\ r'.currentCluster \in {r.currentCluster, r.currentCluster + 1}
                /\ ret'.n = min(r.clusterSize - offset, ret'.len)
                /\ ArrLen(ret'.p) = ret'.n
                /\ ret'.p = Slice(cluster, offset, ret'.n)
                /\ r'.currentOffset = offset + ret'.n
      ]_vars

\* a Read asked for more bytes than the cluster had left, with clusters to follow
C4_Witness ==
    /\ AfterRead /\ ret.err = Nil /\ eofs = 0
    /\ ret.n >= 1 /\ ret.len > ret.n
    /\ r.currentOffset = r.clusterSize
    /\ r.currentCluster + 1 < r.nClusters

(* C5 - all-zero image: when every L1 entry is 0, no Read issues a seek or  *)
(* a read to the source, every byte returned is zero, and end-of-stream     *)
(* comes after nClusters*clusterSize bytes.                                 *)
AllZeroL1 == \A i \in 1..Len(r.l1Table) : r.l1Table[i] = 0

C5_AllZeroNoIO ==
    (AfterRead /\ AllZeroL1) =>
        /\ SourceOps(trace) = << >>
        /\ ret.err = Nil => ret.p = Span(ZeroByte, ret.n)
        /\ (eofs = 1 /\ ret.err = EOF) => total = LogicalSize

(* C8 - partial final L2 table: a load of the L2 table for L1 index i reads *)
(* exactly min(l2TableSize, nClusters - i*l2TableSize) entries of 8 bytes;  *)
(* no cluster is materialized from an entry at a position at or beyond the  *)
(* number of entries the latest resolution wrote; and an image whose        *)
(* cluster count is no multiple of l2TableSize is delivered in full.        *)
\* the steps of the last call that precede its materialization step
BeforeFill ==
    LET at == {i \in 1..Len(trace) : trace[i].op = "fill"}
    IN  IF at = {} THEN trace ELSE SubSeq(trace, 1, (CHOOSE i \in at : TRUE) - 1)

C8_PartialTable ==
    AfterRead =>
        /\ \A i \in 1..Len(BeforeFill) :
              trace[i].op = "read" =>
                  trace[i].n = 8 * min(r.l2TableSize,
                                       r.nClusters - (r.currentCluster \div r.l2TableSize) * r.l2TableSize)
        /\ \A i \in 1..Len(trace) : trace[i].op = "fill" => trace[i].n < resolved.n
        /\ (faults = 0 /\ eofs = 1 /\ ret.err = EOF /\ r.nClusters % r.l2TableSize # 0) =>
              total = LogicalSize

-----------------------------------------------------------------------------
(* Claims about NewReader *)

\* NewReader has returned
Opened == phase # "new"

\* NewReader has returned a reader
HasReader == phase \in {"open", "panic"}

\* the incompatible-feature bits the reader does not support
UnsupportedBits == WordBits \ {incFeatCompressionTypeBit}

\* a step of the last call touched the L1 table: a seek, or a read at its offset
TouchedL1 ==
    \E i \in 1..Len(trace) :
        \/ trace[i].op = "seek"
        \/ trace[i].op = "read" /\ trace[i].at = Val(image.l1TableOffset)

\* the last call read header bytes behind the first 104
ReadAdditionalFields ==
    \E i \in 1..Len(trace) : trace[i].op = "read" /\ trace[i].at = MinHeaderLength

(* C6 - rejection before any table is read: for a wrong magic, or a version *)
(* 3 header with an incompatible-feature bit other than the compression-    *)
(* type bit, NewReader returns an error and no reader, and has issued no    *)
(* seek and no read at the L1 table offset.                                 *)
C6_RejectBeforeTables ==
    (Opened /\ (\/ image.magic # Magic
                \/ image.ver = 3 /\ image.incompatibleFeatures \cap UnsupportedBits # {})) =>
        /\ phase = "failed" /\ ret.err # Nil /\ r = NoReader
        /\ ~TouchedL1

\* a version 3 header was rejected for a feature bit outside the five known ones
C6_Witness ==
    /\ phase = "failed" /\ ret.err = ErrUnknownFeatures
    /\ image.magic = Magic /\ image.ver = 3
    /\ image.incompatibleFeatures \cap (0..4) = {}
    /\ Len(trace) = 2

(* C7 - non-default compression: a version 3 header with the compression-   *)
(* type bit set yields a reader only if its header length is at least 108   *)
(* and its compression-type field, the 4 bytes at offset 104, is zlib (0).  *)
C7_OnlyZlib ==
    (HasReader /\ image.ver = 3 /\ incFeatCompressionTypeBit \in image.incompatibleFeatures) =>
        /\ image.headerLength >= CompressionHeaderLength
        /\ image.compressionType = compressionTypeZlib

(* C9 - header length: a version 3 header that passes the feature checks    *)
(* and whose header length is not a multiple of 8, below 104 or above 1000  *)
(* is rejected with one of the three header-length errors before the        *)
(* additional header bytes and the L1 table are read; a version 3 image     *)
(* that yields a reader has a header length that is a multiple of 8 in      *)
(* [104, 1000].                                                             *)
GoodHeaderLength(hl) == hl % 8 = 0 /\ hl >= 104 /\ hl <= 1000

PassesFeatureChecks ==
    /\ Opened /\ faults = 0
    /\ image.magic = Magic /\ image.ver = 3 /\ image.backingFileNameOffset = {}
    /\ image.clusterBits \in 9..21 /\ image.encryptionMethod = 0
    /\ image.incompatibleFeatures \cap UnsupportedBits = {}

C9_HeaderLength ==
    /\ (PassesFeatureChecks /\ ~GoodHeaderLength(image.headerLength)) =>
          /\ phase = "failed"
          /\ ret.err \in {ErrHeaderAlign, ErrHeaderShort, ErrHeaderLong}
          /\ ~ReadAdditionalFields /\ ~TouchedL1
    /\ (HasReader /\ image.ver = 3) => GoodHeaderLength(image.headerLength)

\* a header length above the ceiling and a multiple of 8 was rejected
C9_Witness ==
    /\ PassesFeatureChecks /\ phase = "failed" /\ ret.err = ErrHeaderLong
    /\ image.headerLength % 8 = 0

(* C10 - cluster count: the reader's nClusters is the unsigned 64-bit       *)
(* virtual disk size divided by the cluster size, remainder discarded, and  *)
(* so never negative.                                                       *)
\* q is the quotient of the unsigned word w by d, for q and d below 2^31 / d
QuotientIs(w, d, q) ==
    /\ q >= 0
    /\ w \cap (31..63) = {}
    /\ q * d <= Val(w) /\ Val(w) < (q + 1) * d

C10_ClusterCount ==
    HasReader => QuotientIs(image.virtualDiskSize, r.clusterSize, r.nClusters)

-----------------------------------------------------------------------------
(* Claims about the reader's state across Read calls *)

\* the Read of the step attempts a cluster transition
Transition == ReadStep /\ r.currentOffset >= r.clusterSize

\* the steps t contain a step of kind op
Has(t, op) == \E i \in 1..Len(t) : t[i].op = op

\* the materialization step among the steps t
FillOf(t) == t[CHOOSE i \in 1..Len(t) : t[i].op = "fill"]

(* C11 - the in-memory L2 table is a cache of one table: a Read resolves an *)
(* L2 table only when its transition advances the cluster index to a c with *)
(* c % l2TableSize = 0, and then for L1 index c / l2TableSize; a successful *)
(* transition to such a c has resolved a table; and whenever a cluster c is *)
(* materialized, the latest resolution was the one for L1 index             *)
(* c / l2TableSize and wrote the entry at position c % l2TableSize.         *)
C11_L2Cache ==
    [][ ReadStep =>
            LET c == r'.currentCluster
                size == r.l2TableSize
            IN  /\ Has(trace', "parseL2Table") =>
                      /\ Transition /\ c = r.currentCluster + 1
                      /\ c % size = 0
                      /\ resolved'.at = c \div size
                /\ (Transition /\ ret'.err = Nil /\ c % size = 0) =>
                      Has(trace', "parseL2Table")
                /\ Has(trace', "fill") =>
                      /\ FillOf(trace').at = c
                      /\ FillOf(trace').n = c % size
                      /\ resolved'.op = "parseL2Table"
                      /\ resolved'.at = c \div size
                      /\ c % size < resolved'.n
      ]_vars

(* C12 - offset in range: the reader NewReader returns has cluster index -1 *)
(* and offset = clusterSize; in every state of a reader the offset is in    *)
(* [0, clusterSize] and the cluster buffer holds clusterSize bytes; and a   *)
(* Read attempts a cluster transition, advancing the cluster index, exactly *)
(* when the offset is clusterSize at the start of the call.                 *)
C12_OffsetInRange ==
    [][ /\ (phase = "new" /\ phase' = "open") =>
              (r'.currentCluster = -1 /\ r'.currentOffset = r'.clusterSize)
        /\ phase' \in {"open", "panic"} =>
              /\ r'.currentOffset \in 0..r'.clusterSize
              /\ ArrLen(r'.currentData) = r'.clusterSize
        /\ ReadStep =>
              ((r'.currentCluster # r.currentCluster) <=> (r.currentOffset = r.clusterSize))
      ]_vars

\* a Read has stopped in the middle of a cluster that is not the first one
C12_Witness ==
    /\ AfterRead /\ ret.err = Nil /\ ret.n >= 1
    /\ r.currentCluster >= 1
    /\ r.currentOffset > 0 /\ r.currentOffset < r.clusterSize
    /\ ArrLen(r.currentData) = r.clusterSize

(* C13 - the configuration is immutable: no Read, successful or failing,    *)
(* changes clusterSize, nClusters, l2TableSize, the compressed-offset mask  *)
(* or the L1 table; and every reader has clusterSize = 2^e for an e in      *)
(* [9, 21] and l2TableSize = clusterSize / 8.                               *)
C13_ConfigImmutable ==
    [][ /\ ReadStep =>
              /\ r'.clusterSize = r.clusterSize
              /\ r'.nClusters = r.nClusters
              /\ r'.l2TableSize = r.l2TableSize
              /\ r'.l2CompressedEntryHostClusterOffsetMask = r.l2CompressedEntryHostClusterOffsetMask
              /\ r'.l1Table = r.l1Table
        /\ phase' \in {"open", "panic"} =>
              /\ \E e \in 9..21 : r'.clusterSize = 2^e
              /\ r'.l2TableSize * 8 = r'.clusterSize
      ]_vars

\* a Read has failed while loading the second L2 table, after successful ones,
\* and the configuration is the one the header gave
C13_Witness ==
    /\ AfterRead /\ ret.err \in {ErrSeek, ErrUnexpectedEOF}
    /\ r.currentCluster = r.l2TableSize /\ total = r.l2TableSize * r.clusterSize
    /\ ~Has(trace, "fill")
    /\ r.clusterSize = 2^image.clusterBits
    /\ r.nClusters = 64 + TailClusters
    /\ Len(r.l1Table) = image.l1TableSize /\ Len(r.l1Table) = 2

(* C14 - progress: every Read with a buffer of at least one byte returns,   *)
(* with at least 1 byte and no error or with 0 bytes and an error or        *)
(* end-of-stream; and as long as no source operation has failed and         *)
(* end-of-stream has not been returned, the bytes delivered, at least one   *)
(* per successful call, do not exceed nClusters*clusterSize, so that        *)
(* end-of-stream comes within that many successful calls.                   *)
C14_Progress ==
    (AfterRead /\ ret.len >= 1) =>
        /\ phase = "open"
        /\ \/ ret.n >= 1 /\ ret.err = Nil
           \/ ret.n = 0 /\ ret.err # Nil
        /\ (faults = 0 /\ eofs = 0) => total <= LogicalSize

(* C15 - L1 index in bounds: for every image NewReader accepts, up to       *)
(* end-of-stream every resolution of an L2 table, the one a Read is in the  *)
(* middle of included, uses an L1 index i with 0 <= i < length of the L1    *)
(* table; no Read indexes the L1 table out of bounds.                       *)
C15_L1IndexInBounds ==
    (AfterRead /\ eofs = 0) =>
        /\ ret.err # PanicIndex
        /\ needsL2Table(r) =>
              (r.currentCluster \div r.l2TableSize) \in 0..(Len(r.l1Table) - 1)
        /\ resolved.op = "parseL2Table" => resolved.at \in 0..(Len(r.l1Table) - 1)

(* C16 - a failed transition consumes nothing: a Read whose cluster         *)
(* transition fails with a seek failure or a short read returns 0 bytes and *)
(* the error and leaves the cluster index and the offset as they were; so   *)
(* that, failures or not, every Read that delivers bytes before             *)
(* end-of-stream delivers the bytes of the logical disk at the position the *)
(* stream has reached, never those of a following cluster.                  *)
C16_FailedTransition ==
    [][ /\ (ReadStep /\ ret'.err \in {ErrSeek, ErrUnexpectedEOF}) =>
              /\ ret'.n = 0
              /\ r'.currentCluster = r.currentCluster
              /\ r'.currentOffset = r.currentOffset
        /\ (ReadStep /\ ret'.err = Nil /\ ret'.n >= 1 /\ eofs = 0) =>
              (Covered(total) /\ ret'.p = LogicalBytes(total, ret'.n))
      ]_vars

====
